---- MODULE Spec2Model ----
(***************************************************************************)
(* A model of the chats application: src/chats/models.py (User,            *)
(* Conversation, Message), src/chats/views.py (the three viewsets) and     *)
(* src/chats/serializers.py (the serializers the viewsets write through).  *)
(*                                                                         *)
(* The database is the state: the user table, the conversation table with  *)
(* its participants relation, the message table, and the two auto          *)
(* increment counters.  `clock` is the wall clock that timezone.now()      *)
(* reads.  `last` is the request that completed most recently with its     *)
(* response, so that properties can speak about who called what and what   *)
(* came back; `prev` is the response before it when the two requests came  *)
(* back to back.  `reqs` holds the requests that are in flight between two *)
(* database statements (used by SpecConc only).                            *)
(*                                                                         *)
(* Spec     : every handler runs to completion (one request at a time).    *)
(* SpecConc : the handlers that issue several statements are interleaved   *)
(*            statement by statement (Django's default autocommit: the     *)
(*            sources open no transaction).                                *)
(* SpecCascade : one request at a time, with the handlers that delete      *)
(*            users, conversations and messages.                           *)
(* SpecPart : add_participant / remove_participant of several workers,     *)
(*            statement by statement.                                      *)
(***************************************************************************)
EXTENDS Integers, Sequences, FiniteSets, TLC

\* ---------------------------------------------------------------- bounds
NUsers == 2          \* users that exist initially
MaxConvs == 2        \* conversations ever created
MaxMsgs == 2         \* messages ever created
MaxClock == 2        \* largest clock value
MaxInflight == 2     \* requests in flight at once (SpecConc)
MaxConvsConc == 1    \* conversations ever created (SpecConc, SpecPart)
NUsersPart == 3      \* users that exist initially (SpecPart)

UserIds == 1..(NUsers + 1)      \* NUsers + 1 never names a user
ConvIds == 1..MaxConvs
MsgIds == 1..MaxMsgs
Threads == 1..MaxInflight
Contents == {"hi"}
\* request payload values; 0 / "" stand for a field the payload leaves out
\* (the views test ids with `if x:`, which treats 0 and a missing key alike)
OptUser == {0} \cup UserIds
OptConv == {0} \cup ConvIds
OptContent == {""} \cup Contents
OptBool == {"", "true", "false"}
\* payloads of update / partial_update: PATCH with at most one field, and PUT,
\* which must carry conversation and content
MessagePayload == [conversation : OptConv, content : OptContent,
                   sender_id : OptUser, is_read : OptBool]
Carried(p) == (IF p.conversation # 0 THEN 1 ELSE 0) + (IF p.content # "" THEN 1 ELSE 0)
              + (IF p.sender_id # 0 THEN 1 ELSE 0) + (IF p.is_read # "" THEN 1 ELSE 0)
UpdatePayloads ==
    {p \in MessagePayload :
        \/ Carried(p) <= 1
        \/ Carried(p) = 2 /\ p.conversation # 0 /\ p.content # ""}

VARIABLES users, convs, msgs, nextConv, nextMsg, clock, reqs, last, prev

vars == <<users, convs, msgs, nextConv, nextMsg, clock, reqs, last, prev>>
db == <<users, convs, msgs, nextConv, nextMsg>>

\* ------------------------------------------------------------- responses
HTTP_200_OK == 200
HTTP_201_CREATED == 201
HTTP_204_NO_CONTENT == 204
HTTP_400_BAD_REQUEST == 400
HTTP_404_NOT_FOUND == 404
\* an exception no handler catches (User.DoesNotExist raised in
\* MessageSerializer.create, an IntegrityError of the database)
UNHANDLED_500 == 500

\* op: the handler; user: the authenticated caller; conv, msg, arg: the ids the
\* request names; status: the HTTP status; cs, ms: the conversations and
\* messages the response body carries, in order; pre: the participants of the
\* target conversation before a successful add_participant / remove_participant
\* (for user_destroy: the messages the deleted user had sent).
Response(op, u, c, m, a, st, cs, ms, pre) ==
    [op |-> op, user |-> u, conv |-> c, msg |-> m, arg |-> a, status |-> st,
     cs |-> cs, ms |-> ms, pre |-> pre]

NoResponse == Response("none", 0, 0, 0, 0, 0, <<>>, <<>>, {})

\* ------------------------------------------------------------------ clock
\* timezone.now(): a value not below any earlier reading.
NowAfter(t) == {t, t + 1}
Now == NowAfter(clock)

\* ----------------------------------------------------------------- models
\* faulty variant: the two clock readings land in the wrong columns
NewConversation_Swapped(t1, t2) ==
    [participants |-> {}, created_at |-> t2, updated_at |-> t1]

\* Conversation row as Conversation.objects.create() writes it: created_at
\* (auto_now_add) and updated_at (auto_now) are two readings of the clock.
NewConversation(t1, t2) ==
    [participants |-> {}, created_at |-> t1, updated_at |-> t2]

\* Conversation.save() of a loaded instance at clock reading t: updated_at is
\* auto_now, every other column keeps its value.
ConversationSave(cs, c, t) ==
    [x \in DOMAIN cs |-> IF x = c THEN [cs[x] EXCEPT !.updated_at = t] ELSE cs[x]]

\* Message row; is_read defaults to False, timestamp is auto_now_add.
NewMessage(sender, conversation, content, is_read, t) ==
    [sender |-> sender, conversation |-> conversation, content |-> content,
     timestamp |-> t, is_read |-> is_read]

\* faulty variant: Message.sender with on_delete=DO_NOTHING
SentBy_DoNothing(ms, x) == {}

\* on_delete=CASCADE of Message.conversation and Message.sender
MessagesOf(ms, c) == {m \in DOMAIN ms : ms[m].conversation = c}
SentBy(ms, x) == {m \in DOMAIN ms : ms[m].sender = x}
Without(f, S) == [x \in DOMAIN f \ S |-> f[x]]

\* --------------------------------------------------------------- querysets
\* ConversationViewSet.get_queryset
ConversationQueryset(u) == {c \in DOMAIN convs : u \in convs[c].participants}

\* MessageViewSet.get_queryset
MessageQueryset(u, conversation_id) ==
    {m \in DOMAIN msgs :
        /\ msgs[m].conversation \in ConversationQueryset(u)
        /\ (conversation_id # 0 => msgs[m].conversation = conversation_id)}

Perms(S) ==
    {s \in [1..Cardinality(S) -> S] : \A i, j \in DOMAIN s : i # j => s[i] # s[j]}

\* faulty variant: ordering = ['updated_at'] (ascending)
ConversationOrdering_Ascending(S) ==
    {s \in Perms(S) :
        \A i \in 1..(Len(s) - 1) : convs[s[i]].updated_at <= convs[s[i + 1]].updated_at}

\* Conversation.Meta.ordering = ['-updated_at']: any order the database may
\* return that is descending in updated_at (rows with equal keys in any order).
ConversationOrdering(S) ==
    {s \in Perms(S) :
        \A i \in 1..(Len(s) - 1) : convs[s[i]].updated_at >= convs[s[i + 1]].updated_at}

\* Message.Meta.ordering = ['-timestamp']
MessageOrdering(S) ==
    {s \in Perms(S) :
        \A i \in 1..(Len(s) - 1) : msgs[s[i]].timestamp >= msgs[s[i + 1]].timestamp}

\* ConversationSerializer.to_representation: the 50 most recent messages
RecentLimit == 50
Min(a, b) == IF a <= b THEN a ELSE b
RecentMessages(c) ==
    {SubSeq(s, 1, Min(Len(s), RecentLimit)) : s \in MessageOrdering(MessagesOf(msgs, c))}

\* Conversation.last_message: self.messages.first(), the first row in
\* Meta.ordering, None (0 here) when the conversation has no message
last_message(c) ==
    IF MessagesOf(msgs, c) = {} THEN {0}
    ELSE {s[1] : s \in MessageOrdering(MessagesOf(msgs, c))}

\* ------------------------------------------------- ConversationViewSet
\* list: every conversation of get_queryset, in Meta.ordering
ConversationList(u) ==
    /\ \E s \in ConversationOrdering(ConversationQueryset(u)) :
          last' = Response("conversation_list", u, 0, 0, 0, HTTP_200_OK, s, <<>>, {})
    /\ UNCHANGED <<db, clock, reqs>>

\* retrieve: get_object() over get_queryset, then ConversationSerializer
ConversationRetrieve(u, c) ==
    /\ IF c \in ConversationQueryset(u)
         THEN \E s \in RecentMessages(c) :
                 last' = Response("conversation_retrieve", u, c, 0, 0, HTTP_200_OK, <<c>>, s, {})
         ELSE last' = Response("conversation_retrieve", u, c, 0, 0, HTTP_404_NOT_FOUND, <<>>, <<>>, {})
    /\ UNCHANGED <<db, clock, reqs>>

\* faulty variant: participant_ids taken as they come, without the filter
\* over the user table
CreateParticipants_NoFilter(u, participant_ids) == participant_ids \cup {u}

\* ConversationSerializer.create: participant_ids resolved against the user
\* table (unknown ids drop out of the filter), then the request user is added
CreateParticipants(u, participant_ids) ==
    (IF participant_ids # {} THEN participant_ids \cap users ELSE {}) \cup {u}

\* ConversationViewSet.create
ConversationCreate(u, participant_ids) ==
    /\ \E t1 \in Now : \E t2 \in NowAfter(t1) :
          /\ convs' = [c \in DOMAIN convs \cup {nextConv} |->
                          IF c = nextConv
                            THEN [NewConversation(t1, t2) EXCEPT
                                     !.participants = CreateParticipants(u, participant_ids)]
                            ELSE convs[c]]
          /\ clock' = t2
    /\ nextConv' = nextConv + 1
    /\ last' = Response("conversation_create", u, nextConv, 0, 0, HTTP_201_CREATED,
                        <<nextConv>>, <<>>, {})
    /\ UNCHANGED <<users, msgs, nextMsg, reqs>>

\* update / partial_update (ModelViewSet): the only writable field,
\* participant_ids, is no model field, so ModelSerializer.update sets it as a
\* plain attribute and calls instance.save(), which refreshes updated_at.
ConversationUpdate(u, c) ==
    /\ IF c \in ConversationQueryset(u)
         THEN \E t \in Now :
                 /\ convs' = ConversationSave(convs, c, t)
                 /\ clock' = t
                 /\ \E s \in RecentMessages(c) :
                       last' = Response("conversation_update", u, c, 0, 0, HTTP_200_OK, <<c>>, s, {})
         ELSE /\ last' = Response("conversation_update", u, c, 0, 0, HTTP_404_NOT_FOUND, <<>>, <<>>, {})
              /\ UNCHANGED <<convs, clock>>
    /\ UNCHANGED <<users, msgs, nextConv, nextMsg, reqs>>

\* destroy (ModelViewSet): the conversation and, by cascade, its messages
ConversationDestroy(u, c) ==
    /\ IF c \in ConversationQueryset(u)
         THEN /\ convs' = Without(convs, {c})
              /\ msgs' = Without(msgs, MessagesOf(msgs, c))
              /\ last' = Response("conversation_destroy", u, c, 0, 0, HTTP_204_NO_CONTENT, <<>>, <<>>, {})
         ELSE /\ last' = Response("conversation_destroy", u, c, 0, 0, HTTP_404_NOT_FOUND, <<>>, <<>>, {})
              /\ UNCHANGED <<convs, msgs>>
    /\ UNCHANGED <<users, nextConv, nextMsg, clock, reqs>>

\* faulty variant: participants.clear() in place of participants.remove(user)
ParticipantsRemove_Clear(cs, c, x) ==
    [cs EXCEPT ![c].participants = {}]

\* faulty variant: participants.set([user]) in place of participants.add(user)
ParticipantsAdd_Set(cs, c, x) ==
    [cs EXCEPT ![c].participants = {x}]

\* conversation.participants.add(user) / .remove(user): one row of the
\* participants relation, which holds each (conversation, user) pair once
ParticipantsAdd(cs, c, x) ==
    [cs EXCEPT ![c].participants = cs[c].participants \cup {x}]
ParticipantsRemove(cs, c, x) ==
    [cs EXCEPT ![c].participants = cs[c].participants \ {x}]

\* faulty variant: the user is not looked up before the add
add_participant_NoLookup(u, c, user_id) ==
    /\ IF c \notin ConversationQueryset(u)
         THEN /\ last' = Response("add_participant", u, c, 0, user_id, HTTP_404_NOT_FOUND, <<>>, <<>>, {})
              /\ UNCHANGED convs
         ELSE IF user_id = 0
         THEN /\ last' = Response("add_participant", u, c, 0, user_id, HTTP_400_BAD_REQUEST, <<>>, <<>>, {})
              /\ UNCHANGED convs
         ELSE /\ convs' = ParticipantsAdd(convs, c, user_id)
              /\ last' = Response("add_participant", u, c, 0, user_id, HTTP_200_OK, <<>>, <<>>,
                                  convs[c].participants)
    /\ UNCHANGED <<users, msgs, nextConv, nextMsg, clock, reqs>>

\* ConversationViewSet.add_participant
add_participant(u, c, user_id) ==
    /\ IF c \notin ConversationQueryset(u)
         THEN /\ last' = Response("add_participant", u, c, 0, user_id, HTTP_404_NOT_FOUND, <<>>, <<>>, {})
              /\ UNCHANGED convs
         ELSE IF user_id = 0
         THEN /\ last' = Response("add_participant", u, c, 0, user_id, HTTP_400_BAD_REQUEST, <<>>, <<>>, {})
              /\ UNCHANGED convs
         ELSE IF user_id \notin users
         THEN /\ last' = Response("add_participant", u, c, 0, user_id, HTTP_404_NOT_FOUND, <<>>, <<>>, {})
              /\ UNCHANGED convs
         ELSE /\ convs' = ParticipantsAdd(convs, c, user_id)
              /\ last' = Response("add_participant", u, c, 0, user_id, HTTP_200_OK, <<>>, <<>>,
                                  convs[c].participants)
    /\ UNCHANGED <<users, msgs, nextConv, nextMsg, clock, reqs>>

\* ConversationViewSet.remove_participant
remove_participant(u, c, user_id) ==
    /\ IF c \notin ConversationQueryset(u)
         THEN /\ last' = Response("remove_participant", u, c, 0, user_id, HTTP_404_NOT_FOUND, <<>>, <<>>, {})
              /\ UNCHANGED convs
         ELSE IF user_id = 0
         THEN /\ last' = Response("remove_participant", u, c, 0, user_id, HTTP_400_BAD_REQUEST, <<>>, <<>>, {})
              /\ UNCHANGED convs
         ELSE IF user_id \notin users
         THEN /\ last' = Response("remove_participant", u, c, 0, user_id, HTTP_404_NOT_FOUND, <<>>, <<>>, {})
              /\ UNCHANGED convs
         ELSE /\ convs' = ParticipantsRemove(convs, c, user_id)
              /\ last' = Response("remove_participant", u, c, 0, user_id, HTTP_200_OK, <<>>, <<>>,
                                  convs[c].participants)
    /\ UNCHANGED <<users, msgs, nextConv, nextMsg, clock, reqs>>

\* ----------------------------------------------------- MessageViewSet
\* list: get_queryset (optionally narrowed by ?conversation_id=) in Meta.ordering
MessageList(u, conversation_id) ==
    /\ \E s \in MessageOrdering(MessageQueryset(u, conversation_id)) :
          last' = Response("message_list", u, conversation_id, 0, 0, HTTP_200_OK, <<>>, s, {})
    /\ UNCHANGED <<db, clock, reqs>>

\* retrieve: get_object() over get_queryset
MessageRetrieve(u, m) ==
    /\ IF m \in MessageQueryset(u, 0)
         THEN last' = Response("message_retrieve", u, 0, m, 0, HTTP_200_OK, <<>>, <<m>>, {})
         ELSE last' = Response("message_retrieve", u, 0, m, 0, HTTP_404_NOT_FOUND, <<>>, <<>>, {})
    /\ UNCHANGED <<db, clock, reqs>>

\* faulty variant: the lookup without participants=request.user
CreateAllowed_AnyConversation(u, conversation_id) == conversation_id \in DOMAIN convs

\* MessageViewSet.create, the participant check:
\* Conversation.objects.get(id=conversation_id, participants=request.user)
CreateAllowed(u, conversation_id) == conversation_id \in ConversationQueryset(u)

\* MessageSerializer.create: validated_data holds sender=request.user (from
\* serializer.save(sender=...)) and, when the payload carries it, sender_id;
\* with a sender_id the sender is replaced by User.objects.get(id=sender_id).
MessageSender(u, sender_id) == IF sender_id = 0 THEN u ELSE sender_id

\* BooleanField is_read of the payload; the model default is False
IsReadValue(is_read, default) == IF is_read = "" THEN default ELSE is_read = "true"

\* Message.save(): super().save() and then self.conversation.save()
\* (ms: the message table after the row is written; t: the clock reading of
\* the conversation's auto_now)
MessageSave(ms, c, t) ==
    /\ msgs' = ms
    /\ convs' = ConversationSave(convs, c, t)
    /\ clock' = t

\* MessageViewSet.create
MessageCreate(u, conversation_id, content, sender_id, is_read) ==
    /\ IF conversation_id # 0 /\ ~CreateAllowed(u, conversation_id)
         THEN /\ last' = Response("message_create", u, conversation_id, 0, 0,
                                  HTTP_404_NOT_FOUND, <<>>, <<>>, {})
              /\ UNCHANGED <<convs, msgs, nextMsg, clock>>
         ELSE IF conversation_id = 0 \/ content = ""
         THEN \* serializer.is_valid(raise_exception=True): a required field is missing
              /\ last' = Response("message_create", u, conversation_id, 0, 0,
                                  HTTP_400_BAD_REQUEST, <<>>, <<>>, {})
              /\ UNCHANGED <<convs, msgs, nextMsg, clock>>
         ELSE IF sender_id # 0 /\ sender_id \notin users
         THEN \* User.objects.get raises User.DoesNotExist
              /\ last' = Response("message_create", u, conversation_id, 0, 0,
                                  UNHANDLED_500, <<>>, <<>>, {})
              /\ UNCHANGED <<convs, msgs, nextMsg, clock>>
         ELSE /\ \E t1 \in Now : \E t2 \in NowAfter(t1) :
                    MessageSave([m \in DOMAIN msgs \cup {nextMsg} |->
                                    IF m = nextMsg
                                      THEN NewMessage(MessageSender(u, sender_id), conversation_id,
                                                      content, IsReadValue(is_read, FALSE), t1)
                                      ELSE msgs[m]],
                                conversation_id, t2)
              /\ nextMsg' = nextMsg + 1
              /\ last' = Response("message_create", u, conversation_id, nextMsg, 0,
                                  HTTP_201_CREATED, <<>>, <<nextMsg>>, {})
    /\ UNCHANGED <<users, nextConv, reqs>>

\* ModelSerializer.update over MessageSerializer's writable fields
\* (conversation, content, sender_id, is_read): each field the payload carries
\* is set on the instance
UpdatedMessage(msg, conversation_id, content, sender_id, is_read) ==
    [sender |-> IF sender_id = 0 THEN msg.sender ELSE sender_id,
     conversation |-> IF conversation_id = 0 THEN msg.conversation ELSE conversation_id,
     content |-> IF content = "" THEN msg.content ELSE content,
     timestamp |-> msg.timestamp,
     is_read |-> IsReadValue(is_read, msg.is_read)]

\* update / partial_update (ModelViewSet); PUT is the case that carries
\* conversation and content
MessageUpdate(u, m, conversation_id, content, sender_id, is_read) ==
    /\ IF m \notin MessageQueryset(u, 0)
         THEN /\ last' = Response("message_update", u, 0, m, 0,
                                  HTTP_404_NOT_FOUND, <<>>, <<>>, {})
              /\ UNCHANGED <<convs, msgs, clock>>
         ELSE IF conversation_id # 0 /\ conversation_id \notin DOMAIN convs
         THEN \* PrimaryKeyRelatedField: no such conversation
              /\ last' = Response("message_update", u, 0, m, 0,
                                  HTTP_400_BAD_REQUEST, <<>>, <<>>, {})
              /\ UNCHANGED <<convs, msgs, clock>>
         ELSE IF sender_id # 0 /\ sender_id \notin users
         THEN \* the foreign key of the UPDATE names no user: IntegrityError
              /\ last' = Response("message_update", u, 0, m, 0,
                                  UNHANDLED_500, <<>>, <<>>, {})
              /\ UNCHANGED <<convs, msgs, clock>>
         ELSE LET new == UpdatedMessage(msgs[m], conversation_id, content, sender_id, is_read)
              IN  /\ \E t \in Now : MessageSave([msgs EXCEPT ![m] = new], new.conversation, t)
                  /\ last' = Response("message_update", u, 0, m, 0,
                                      HTTP_200_OK, <<>>, <<m>>, {})
    /\ UNCHANGED <<users, nextConv, nextMsg, reqs>>

\* destroy (ModelViewSet)
MessageDestroy(u, m) ==
    /\ IF m \in MessageQueryset(u, 0)
         THEN /\ msgs' = Without(msgs, {m})
              /\ last' = Response("message_destroy", u, 0, m, 0, HTTP_204_NO_CONTENT, <<>>, <<>>, {})
         ELSE /\ last' = Response("message_destroy", u, 0, m, 0, HTTP_404_NOT_FOUND, <<>>, <<>>, {})
              /\ UNCHANGED msgs
    /\ UNCHANGED <<users, convs, nextConv, nextMsg, clock, reqs>>

\* MessageViewSet.mark_as_read: message.is_read = True; message.save()
mark_as_read(u, m) ==
    /\ IF m \in MessageQueryset(u, 0)
         THEN /\ \E t \in Now :
                    MessageSave([msgs EXCEPT ![m].is_read = TRUE], msgs[m].conversation, t)
              /\ last' = Response("mark_as_read", u, 0, m, 0, HTTP_200_OK, <<>>, <<>>, {})
         ELSE /\ last' = Response("mark_as_read", u, 0, m, 0, HTTP_404_NOT_FOUND, <<>>, <<>>, {})
              /\ UNCHANGED <<convs, msgs, clock>>
    /\ UNCHANGED <<users, nextConv, nextMsg, reqs>>

\* faulty variant: the filter without .exclude(sender=request.user)
MarkReadTargets_NoExclude(u, c) == MessagesOf(msgs, c)

\* Message.objects.filter(conversation=conversation).exclude(sender=request.user)
MarkReadTargets(u, c) == {m \in MessagesOf(msgs, c) : msgs[m].sender # u}

\* MessageViewSet.mark_conversation_as_read: one UPDATE, no Message.save()
mark_conversation_as_read(u, conversation_id) ==
    /\ IF conversation_id = 0
         THEN /\ last' = Response("mark_conversation_as_read", u, conversation_id, 0, 0,
                                  HTTP_400_BAD_REQUEST, <<>>, <<>>, {})
              /\ UNCHANGED msgs
         ELSE IF conversation_id \notin ConversationQueryset(u)
         THEN /\ last' = Response("mark_conversation_as_read", u, conversation_id, 0, 0,
                                  HTTP_404_NOT_FOUND, <<>>, <<>>, {})
              /\ UNCHANGED msgs
         ELSE /\ msgs' = [m \in DOMAIN msgs |->
                             IF m \in MarkReadTargets(u, conversation_id)
                               THEN [msgs[m] EXCEPT !.is_read = TRUE]
                               ELSE msgs[m]]
              /\ last' = Response("mark_conversation_as_read", u, conversation_id, 0, 0,
                                  HTTP_200_OK, <<>>, <<>>, {})
    /\ UNCHANGED <<users, convs, nextConv, nextMsg, clock, reqs>>

\* ------------------------------------------- MessageViewSet.create, by statement
\* The handler issues its statements one after the other with no transaction
\* around them; requests of other workers run in between.  A request in
\* flight keeps its payload and what it has read so far.
\*   pc = "insert": the participant check passed; next is serializer.is_valid,
\*                  MessageSerializer.create and the INSERT of Message.save()
\*   pc = "touch" : the message row is written; next is the clock reading of
\*                  self.conversation.save() (auto_now)
\*   pc = "write" : the clock is read (t); next is the UPDATE of the conversation
IdleRequest ==
    [pc |-> "idle", op |-> "none", user |-> 0, conv |-> 0, arg |-> 0, content |-> "",
     sender_id |-> 0, is_read |-> "", msg |-> 0, t |-> 0]

\* views.py 152-164: the participant check
AppendBegin(th, u, conversation_id, content, sender_id, is_read) ==
    /\ reqs[th].pc = "idle"
    /\ IF conversation_id # 0 /\ ~CreateAllowed(u, conversation_id)
         THEN /\ last' = Response("message_create", u, conversation_id, 0, 0,
                                  HTTP_404_NOT_FOUND, <<>>, <<>>, {})
              /\ UNCHANGED reqs
         ELSE /\ reqs' = [reqs EXCEPT ![th] =
                            [pc |-> "insert", op |-> "message_create", user |-> u,
                             conv |-> conversation_id, arg |-> 0,
                             content |-> content, sender_id |-> sender_id,
                             is_read |-> is_read, msg |-> 0, t |-> 0]]
              /\ UNCHANGED last
    /\ UNCHANGED <<db, clock>>

\* views.py 166-168, serializers.py 31-42, models.py 80: validation, the
\* sender, and the INSERT with timestamp = now
AppendInsert(th) ==
    LET r == reqs[th] IN
    /\ r.pc = "insert"
    /\ IF r.conv \notin DOMAIN convs \/ r.content = ""
         THEN /\ last' = Response("message_create", r.user, r.conv, 0, 0,
                                  HTTP_400_BAD_REQUEST, <<>>, <<>>, {})
              /\ reqs' = [reqs EXCEPT ![th] = IdleRequest]
              /\ UNCHANGED <<msgs, nextMsg, clock>>
         ELSE IF r.sender_id # 0 /\ r.sender_id \notin users
         THEN /\ last' = Response("message_create", r.user, r.conv, 0, 0,
                                  UNHANDLED_500, <<>>, <<>>, {})
              /\ reqs' = [reqs EXCEPT ![th] = IdleRequest]
              /\ UNCHANGED <<msgs, nextMsg, clock>>
         ELSE /\ \E t1 \in Now :
                    /\ msgs' = [m \in DOMAIN msgs \cup {nextMsg} |->
                                   IF m = nextMsg
                                     THEN NewMessage(MessageSender(r.user, r.sender_id), r.conv,
                                                     r.content, IsReadValue(r.is_read, FALSE), t1)
                                     ELSE msgs[m]]
                    /\ clock' = t1
              /\ nextMsg' = nextMsg + 1
              /\ reqs' = [reqs EXCEPT ![th].pc = "touch", ![th].msg = nextMsg]
              /\ UNCHANGED last
    /\ UNCHANGED <<users, convs, nextConv>>

\* models.py 81, first half: conversation.save() reads the clock for updated_at
AppendTouchNow(th) ==
    /\ reqs[th].pc = "touch"
    /\ \E t \in Now :
          /\ clock' = t
          /\ reqs' = [reqs EXCEPT ![th].pc = "write", ![th].t = t]
    /\ UNCHANGED <<db, last>>

\* models.py 81, second half: the UPDATE of the conversation row; then the 201 response
AppendTouchWrite(th) ==
    LET r == reqs[th] IN
    /\ r.pc = "write"
    /\ convs' = ConversationSave(convs, r.conv, r.t)
    /\ reqs' = [reqs EXCEPT ![th] = IdleRequest]
    /\ last' = Response("message_create", r.user, r.conv, r.msg, 0,
                        HTTP_201_CREATED, <<>>, <<r.msg>>, {})
    /\ UNCHANGED <<users, msgs, nextConv, nextMsg, clock>>

\* The worker of a request in flight dies (killed, timed out, the database
\* connection lost): the statements already executed stay, as each was
\* committed on its own.
AppendAbort(th) ==
    /\ reqs[th].pc \in {"insert", "touch", "write"}
    /\ reqs' = [reqs EXCEPT ![th] = IdleRequest]
    /\ UNCHANGED <<db, clock, last>>

\* ------------------- add_participant / remove_participant, by statement
\* The two handlers have the same shape (views.py 76-96, 101-121):
\*   get_object() and the user_id test, then
\*   pc = "lookup": next is User.objects.get(id=user_id)
\*   pc = "write" : next is participants.add(user) / participants.remove(user),
\*                  one INSERT (that skips a row already there) / one DELETE
\*                  of the row (conversation, user), and the 200 response
\*   pc = "done"  : the response is out; the worker has not yet been handed
\*                  its next request
PartBegin(th, u, c, user_id, op) ==
    /\ reqs[th].pc = "idle"
    /\ IF c \notin ConversationQueryset(u)
         THEN /\ last' = Response(op, u, c, 0, user_id, HTTP_404_NOT_FOUND, <<>>, <<>>, {})
              /\ UNCHANGED reqs
         ELSE IF user_id = 0
         THEN /\ last' = Response(op, u, c, 0, user_id, HTTP_400_BAD_REQUEST, <<>>, <<>>, {})
              /\ UNCHANGED reqs
         ELSE /\ reqs' = [reqs EXCEPT ![th] =
                            [IdleRequest EXCEPT !.pc = "lookup", !.op = op, !.user = u,
                                                !.conv = c, !.arg = user_id]]
              /\ UNCHANGED last
    /\ UNCHANGED <<db, clock>>

PartLookup(th) ==
    LET r == reqs[th] IN
    /\ r.pc = "lookup"
    /\ IF r.arg \notin users
         THEN /\ last' = Response(r.op, r.user, r.conv, 0, r.arg, HTTP_404_NOT_FOUND, <<>>, <<>>, {})
              /\ reqs' = [reqs EXCEPT ![th] = IdleRequest]
         ELSE /\ reqs' = [reqs EXCEPT ![th].pc = "write"]
              /\ UNCHANGED last
    /\ UNCHANGED <<db, clock>>

PartWrite(th) ==
    LET r == reqs[th] IN
    /\ r.pc = "write"
    /\ convs' = IF r.op = "add_participant"
                  THEN ParticipantsAdd(convs, r.conv, r.arg)
                  ELSE ParticipantsRemove(convs, r.conv, r.arg)
    /\ reqs' = [reqs EXCEPT ![th].pc = "done"]
    /\ last' = Response(r.op, r.user, r.conv, 0, r.arg, HTTP_200_OK, <<>>, <<>>,
                        convs[r.conv].participants)
    /\ UNCHANGED <<users, msgs, nextConv, nextMsg, clock>>

PartDone(th) ==
    /\ reqs[th].pc = "done"
    /\ reqs' = [reqs EXCEPT ![th] = IdleRequest]
    /\ UNCHANGED <<db, clock, last>>

\* --------------------------------------------------------- UserViewSet
\* destroy (ModelViewSet) over get_queryset, which excludes the caller: the
\* user row goes, with it (CASCADE) the messages the user sent and the user's
\* rows of every participants relation
UserDestroy(u, x) ==
    /\ IF x \in users \ {u}
         THEN /\ users' = users \ {x}
              /\ msgs' = Without(msgs, SentBy(msgs, x))
              /\ convs' = [c \in DOMAIN convs |->
                              [convs[c] EXCEPT !.participants = convs[c].participants \ {x}]]
              /\ last' = Response("user_destroy", u, 0, 0, x, HTTP_204_NO_CONTENT, <<>>, <<>>,
                                  SentBy(msgs, x))
         ELSE /\ last' = Response("user_destroy", u, 0, 0, x, HTTP_404_NOT_FOUND, <<>>, <<>>, {})
              /\ UNCHANGED <<users, msgs, convs>>
    /\ UNCHANGED <<nextConv, nextMsg, clock, reqs>>

\* ------------------------------------------------------- specification
Init ==
    /\ users = 1..NUsers
    /\ convs = <<>>
    /\ msgs = <<>>
    /\ nextConv = 1
    /\ nextMsg = 1
    /\ clock = 1
    /\ reqs = [th \in Threads |-> IdleRequest]
    /\ last = NoResponse
    /\ prev = NoResponse

\* The response leaves the server.
Respond ==
    /\ last # NoResponse
    /\ last' = NoResponse
    /\ prev' = NoResponse
    /\ UNCHANGED <<db, clock, reqs>>

\* a request taken after the previous response has left
Fresh == last = NoResponse /\ prev' = NoResponse
\* a request taken right after the success response to `op`
After(op) ==
    last.op = op /\ last.status = HTTP_200_OK /\ prev = NoResponse /\ prev' = last

\* Spec: one request at a time, every handler of ConversationViewSet and
\* MessageViewSet.  The
\* handlers never read `last`, so taking a request only after Respond loses no
\* database state; the two pairs of back-to-back requests that properties
\* speak about are taken without the Respond in between.
Next ==
    \/ Respond
    \/ Fresh /\ \E u \in users : ConversationList(u)
    \/ Fresh /\ \E u \in users, c \in ConvIds : ConversationRetrieve(u, c)
    \/ /\ Fresh /\ nextConv <= MaxConvs
       /\ \E u \in users, ids \in SUBSET UserIds : ConversationCreate(u, ids)
       /\ clock' <= MaxClock
    \/ Fresh /\ (\E u \in users, c \in ConvIds : ConversationUpdate(u, c)) /\ clock' <= MaxClock
    \/ Fresh /\ \E u \in users, c \in ConvIds : ConversationDestroy(u, c)
    \/ Fresh /\ \E u \in users, c \in ConvIds, x \in OptUser : add_participant(u, c, x)
    \/ Fresh /\ \E u \in users, c \in ConvIds, x \in OptUser : remove_participant(u, c, x)
    \/ Fresh /\ \E u \in users, c \in OptConv : MessageList(u, c)
    \/ Fresh /\ \E u \in users, m \in MsgIds : MessageRetrieve(u, m)
    \/ /\ Fresh
       /\ \E u \in users, c \in OptConv, t \in OptContent, s \in OptUser, r \in OptBool :
             MessageCreate(u, c, t, s, r)
       /\ nextMsg' <= MaxMsgs + 1 /\ clock' <= MaxClock
    \/ /\ Fresh
       /\ \E u \in users, m \in MsgIds, p \in UpdatePayloads :
             MessageUpdate(u, m, p.conversation, p.content, p.sender_id, p.is_read)
       /\ clock' <= MaxClock
    \/ Fresh /\ \E u \in users, m \in MsgIds : MessageDestroy(u, m)
    \/ Fresh /\ (\E u \in users, m \in MsgIds : mark_as_read(u, m)) /\ clock' <= MaxClock
    \/ Fresh /\ \E u \in users, c \in OptConv : mark_conversation_as_read(u, c)
    \* back to back: the caller repeats mark_conversation_as_read
    \/ After("mark_conversation_as_read") /\ mark_conversation_as_read(last.user, last.conv)
    \* back to back: the user just added is removed again
    \/ After("add_participant") /\ \E u \in users : remove_participant(u, last.conv, last.arg)

Spec == Init /\ [][Next]_vars

\* SpecConc: requests of several workers.  MessageViewSet.create runs statement
\* by statement; the other handlers here issue one writing statement each.
\* No handler that deletes rows takes part.  As in Spec, a step is taken after
\* the last response has left, which restricts no interleaving of statements.
NextConc ==
    \/ Respond
    \/ /\ Fresh /\ nextConv <= MaxConvsConc
       /\ \E u \in users, ids \in SUBSET users : ConversationCreate(u, ids)
       /\ clock' <= MaxClock
    \/ Fresh /\ \E u \in users, c \in 1..MaxConvsConc, x \in users : add_participant(u, c, x)
    \/ Fresh /\ \E u \in users, c \in 1..MaxConvsConc, x \in users : remove_participant(u, c, x)
    \/ Fresh /\ \E th \in Threads, u \in users, c \in 1..MaxConvsConc : AppendBegin(th, u, c, "hi", 0, "")
    \/ /\ Fresh
       /\ \E th \in Threads : AppendInsert(th)
       /\ nextMsg' <= MaxMsgs + 1 /\ clock' <= MaxClock
    \/ Fresh /\ (\E th \in Threads : AppendTouchNow(th)) /\ clock' <= MaxClock
    \/ Fresh /\ \E th \in Threads : AppendTouchWrite(th)
    \/ Fresh /\ \E th \in Threads : AppendAbort(th)

SpecConc == Init /\ [][NextConc]_vars

\* SpecCascade: one request at a time, with the handlers that delete rows:
\* UserViewSet.destroy next to the handlers that create, move and delete
\* conversations and messages.
NextCascade ==
    \/ Respond
    \/ /\ Fresh /\ nextConv <= MaxConvs
       /\ \E u \in users, ids \in SUBSET users : ConversationCreate(u, ids)
       /\ clock' <= MaxClock
    \/ Fresh /\ \E u \in users, c \in ConvIds, x \in users : add_participant(u, c, x)
    \/ Fresh /\ \E u \in users, c \in ConvIds, x \in users : remove_participant(u, c, x)
    \/ /\ Fresh
       /\ \E u \in users, c \in ConvIds, s \in OptUser : MessageCreate(u, c, "hi", s, "")
       /\ nextMsg' <= MaxMsgs + 1 /\ clock' <= MaxClock
    \/ /\ Fresh
       /\ \E u \in users, m \in MsgIds, p \in UpdatePayloads :
             MessageUpdate(u, m, p.conversation, p.content, p.sender_id, p.is_read)
       /\ clock' <= MaxClock
    \/ Fresh /\ \E u \in users, m \in MsgIds : MessageDestroy(u, m)
    \/ Fresh /\ \E u \in users, c \in ConvIds : ConversationDestroy(u, c)
    \/ Fresh /\ \E u \in users, x \in UserIds : UserDestroy(u, x)

SpecCascade == Init /\ [][NextCascade]_vars

\* SpecPart: add_participant and remove_participant of several workers,
\* statement by statement, on a conversation among NUsersPart users.  A new
\* request is handed out when no worker is in "done"; as a worker may leave
\* "done" at once, this excludes no interleaving of statements.
PartUserIds == 0..(NUsersPart + 1)

InitPart ==
    /\ users = 1..NUsersPart
    /\ convs = <<>>
    /\ msgs = <<>>
    /\ nextConv = 1
    /\ nextMsg = 1
    /\ clock = 1
    /\ reqs = [th \in Threads |-> IdleRequest]
    /\ last = NoResponse
    /\ prev = NoResponse

NextPart ==
    \/ Respond
    \/ /\ Fresh /\ nextConv <= MaxConvsConc
       /\ \E u \in users, ids \in SUBSET users : ConversationCreate(u, ids)
       /\ clock' <= MaxClock
    \/ /\ Fresh /\ \A t \in Threads : reqs[t].pc # "done"
       /\ \E th \in Threads, u \in users, c \in 1..MaxConvsConc, x \in PartUserIds,
             op \in {"add_participant", "remove_participant"} : PartBegin(th, u, c, x, op)
    \/ Fresh /\ \E th \in Threads : PartLookup(th)
    \/ Fresh /\ \E th \in Threads : PartWrite(th)
    \/ Fresh /\ \E th \in Threads : PartDone(th)

SpecPart == InitPart /\ [][NextPart]_vars

\* ================================================================ properties
ParticipantsOf(c) == convs[c].participants
Elems(s) == {s[i] : i \in DOMAIN s}

\* ---- C1
\* the operations C1 lists
ListedOps ==
    {"conversation_list", "conversation_retrieve", "conversation_update",
     "conversation_destroy", "add_participant", "remove_participant",
     "message_list", "message_retrieve", "message_create", "message_update",
     "message_destroy", "mark_as_read", "mark_conversation_as_read"}

\* C1: a listed operation called by a user who is not a participant of
\* conversation c returns neither c nor a message of c, and changes neither
\* c's participants, nor c's updated_at, nor the set of c's messages, nor any
\* field of a message of c.
C1_NonParticipantIsolation ==
    [][\A c \in DOMAIN convs :
          (last'.op \in ListedOps /\ last'.user \notin ParticipantsOf(c)) =>
             /\ c \notin Elems(last'.cs)
             /\ \A m \in Elems(last'.ms) :
                   m \in DOMAIN msgs' => msgs'[m].conversation # c
             /\ c \in DOMAIN convs'
             /\ convs'[c].participants = convs[c].participants
             /\ convs'[c].updated_at = convs[c].updated_at
             /\ MessagesOf(msgs', c) = MessagesOf(msgs, c)
             /\ \A m \in MessagesOf(msgs, c) : msgs'[m] = msgs[m]]_vars

C3_SenderIsCaller ==
    (last.op = "message_create" /\ last.status = HTTP_201_CREATED) =>
        msgs[last.msg].sender = last.user

\* ---- C4
\* C4: a message is created unread, and a message that is read stays read
\* for as long as it exists.
C4_ReadIsOneWay ==
    [][/\ \A m \in DOMAIN msgs' \ DOMAIN msgs : ~msgs'[m].is_read
       /\ \A m \in DOMAIN msgs \cap DOMAIN msgs' : msgs[m].is_read => msgs'[m].is_read]_vars

\* ---- C5
\* C5: mark_conversation_as_read by a participant u of c succeeds, sets is_read
\* on the messages of c that u did not send, changes nothing else of any
\* message, and called again at once changes no message.
C5_MarkConversationRead ==
    [][\A c \in DOMAIN convs : \A u \in ParticipantsOf(c) :
          (last'.op = "mark_conversation_as_read" /\ last'.user = u /\ last'.conv = c) =>
             /\ last'.status = 200
             /\ DOMAIN msgs' = DOMAIN msgs
             /\ \A m \in DOMAIN msgs :
                   msgs'[m] = IF msgs[m].conversation = c /\ msgs[m].sender # u
                                THEN [msgs[m] EXCEPT !.is_read = TRUE]
                                ELSE msgs[m]
             /\ (prev'.op = "mark_conversation_as_read" /\ prev'.user = u /\ prev'.conv = c)
                   => msgs' = msgs]_vars

\* the second of two back-to-back calls has been answered, in a conversation
\* that holds a message of another sender (now read) and an unread message of
\* the caller
C5_Witness ==
    /\ prev.op = "mark_conversation_as_read" /\ prev.status = 200
    /\ last.op = "mark_conversation_as_read" /\ last.status = 200
    /\ \E m1, m2 \in MessagesOf(msgs, last.conv) :
          /\ msgs[m1].sender # last.user /\ msgs[m1].is_read
          /\ msgs[m2].sender = last.user /\ ~msgs[m2].is_read

\* ---- C6
\* C6: the updated_at of a conversation never decreases.
C6_UpdatedAtMonotonic ==
    [][\A c \in DOMAIN convs \cap DOMAIN convs' :
          convs'[c].updated_at >= convs[c].updated_at]_vars

\* ---- C7
\* C7: every stored message has a timestamp that is not after the updated_at
\* of its conversation.
C7_FreshnessCoversMessages ==
    \A m \in DOMAIN msgs :
        msgs[m].conversation \in DOMAIN convs =>
            convs[msgs[m].conversation].updated_at >= msgs[m].timestamp

\* ---- C8
\* C8: every conversation has updated_at >= created_at.
C8_UpdatedNotBeforeCreated ==
    \A c \in DOMAIN convs : convs[c].updated_at >= convs[c].created_at

\* a conversation whose updated_at has moved past created_at holds a message
C8_Witness ==
    \E c \in DOMAIN convs :
        /\ convs[c].updated_at > convs[c].created_at
        /\ MessagesOf(msgs, c) # {}

\* ---- C9
\* C9: the conversation list of u holds exactly the conversations u takes
\* part in, each once, in descending updated_at.
C9_ListForUser ==
    last.op = "conversation_list" =>
        /\ Elems(last.cs) = {c \in DOMAIN convs : last.user \in convs[c].participants}
        /\ \A i, j \in DOMAIN last.cs : i # j => last.cs[i] # last.cs[j]
        /\ \A i, j \in DOMAIN last.cs :
              i < j => convs[last.cs[i]].updated_at >= convs[last.cs[j]].updated_at

\* a list of two conversations with different updated_at has been returned
C9_Witness ==
    /\ last.op = "conversation_list"
    /\ Len(last.cs) = 2
    /\ convs[last.cs[1]].updated_at # convs[last.cs[2]].updated_at

\* ---- C10
AddThenRemove ==
    /\ prev.op = "add_participant" /\ prev.status = 200
    /\ last.op = "remove_participant" /\ last.status = 200
    /\ last.conv = prev.conv /\ last.arg = prev.arg

\* C10 as stated: add_participant(c, x) followed by remove_participant(c, x)
\* leaves the participants of c as they were before the add.
C10_AddRemoveRestores ==
    AddThenRemove => ParticipantsOf(prev.conv) = prev.pre

\* C10 (amended): the same, for a user x who was not a participant of c
\* before the add.
C10_AddRemoveRestoresNew ==
    (AddThenRemove /\ prev.arg \notin prev.pre) => ParticipantsOf(prev.conv) = prev.pre

\* a user who was no participant has been added and removed again
C10_Witness ==
    AddThenRemove /\ prev.arg \notin prev.pre /\ prev.pre # {}

\* ---- C11
\* C11: add_participant / remove_participant by a participant of the
\* conversation, with a user id that names no user, ends 404 and leaves every
\* participant set unchanged; with no user id it ends 400 and leaves every
\* participant set unchanged.
C11_BadUserIdRejected ==
    [][(/\ last'.op \in {"add_participant", "remove_participant"}
        /\ last'.conv \in DOMAIN convs
        /\ last'.user \in ParticipantsOf(last'.conv)) =>
          /\ last'.arg = 0 => (last'.status = 400 /\ convs' = convs)
          /\ (last'.arg # 0 /\ last'.arg \notin users) =>
                (last'.status = 404 /\ convs' = convs)]_vars

\* a participant's add_participant with an id that names no user has been
\* answered 404
C11_Witness ==
    /\ last.op = "add_participant"
    /\ last.conv \in DOMAIN convs
    /\ last.user \in ParticipantsOf(last.conv)
    /\ last.arg # 0 /\ last.arg \notin users
    /\ last.status = 404

\* ---- C12
\* C12: adding a user who already takes part, removing a user who does not
\* take part, and mark_as_read of a message that is already read each end 200;
\* the first two leave the participant set as it was, the third leaves the
\* message read.
C12_RetriesAreSafe ==
    [][/\ \A c \in DOMAIN convs :
            (/\ last'.op \in {"add_participant", "remove_participant"}
             /\ last'.conv = c
             /\ last'.user \in ParticipantsOf(c)
             /\ last'.arg \in users
             /\ (last'.op = "add_participant") = (last'.arg \in ParticipantsOf(c))) =>
               /\ last'.status = 200
               /\ c \in DOMAIN convs'
               /\ convs'[c].participants = convs[c].participants
       /\ \A m \in DOMAIN msgs :
            (/\ last'.op = "mark_as_read"
             /\ last'.msg = m
             /\ msgs[m].conversation \in DOMAIN convs
             /\ last'.user \in ParticipantsOf(msgs[m].conversation)
             /\ msgs[m].is_read) =>
               /\ last'.status = 200
               /\ m \in DOMAIN msgs'
               /\ msgs'[m].is_read]_vars

\* a user who already took part, in a conversation of two, has been added again
C12_Witness ==
    /\ last.op = "add_participant" /\ last.status = 200
    /\ last.arg \in last.pre
    /\ Cardinality(last.pre) = 2

\* ---- C13
\* C13: ConversationCreate(u, ids) ends 201 with a new conversation whose
\* participants are (ids \cap users) \cup {u}, whatever ids names, and which
\* holds no message; every other conversation and every message is unchanged.
C13_CreateConversation ==
    [][\A u \in users, ids \in SUBSET UserIds :
          (last'.op = "conversation_create" /\ last'.user = u /\ ConversationCreate(u, ids)) =>
             LET c == last'.conv IN
             /\ last'.status = 201
             /\ c \notin DOMAIN convs
             /\ DOMAIN convs' = DOMAIN convs \cup {c}
             /\ convs'[c].participants = (ids \cap users) \cup {u}
             /\ MessagesOf(msgs', c) = {}
             /\ \A d \in DOMAIN convs : convs'[d] = convs[d]
             /\ msgs' = msgs]_vars

\* a conversation of two participants has been created while another
\* conversation holds a message
C13_Witness ==
    /\ last.op = "conversation_create" /\ last.status = 201
    /\ Cardinality(ParticipantsOf(last.conv)) = 2
    /\ MessagesOf(msgs, last.conv) = {}
    /\ \E d \in DOMAIN convs \ {last.conv} : MessagesOf(msgs, d) # {}

\* ---- C14
\* C14: a stored message keeps its content, sender, conversation and
\* timestamp for as long as it exists, and it leaves the store only in a step
\* that deletes its conversation or its sender.
C14_MessagesImmutable ==
    [][\A m \in DOMAIN msgs :
          /\ m \in DOMAIN msgs' =>
                /\ msgs'[m].content = msgs[m].content
                /\ msgs'[m].sender = msgs[m].sender
                /\ msgs'[m].conversation = msgs[m].conversation
                /\ msgs'[m].timestamp = msgs[m].timestamp
          /\ m \notin DOMAIN msgs' =>
                \/ msgs[m].conversation \notin DOMAIN convs'
                \/ msgs[m].sender \notin users']_vars

\* ---- C15
\* C15: after every step each stored message names a conversation and a
\* sender that exist; a successful conversation_destroy of c removes exactly
\* the messages of c, a successful user_destroy of x removes exactly the
\* messages x sent, and either leaves every other message as it was.
C15_CascadeIntegrity ==
    [][/\ \A m \in DOMAIN msgs' :
             msgs'[m].conversation \in DOMAIN convs' /\ msgs'[m].sender \in users'
       /\ (last'.op = "conversation_destroy" /\ last'.status = 204) =>
             /\ DOMAIN msgs' = DOMAIN msgs \ {m \in DOMAIN msgs : msgs[m].conversation = last'.conv}
             /\ \A m \in DOMAIN msgs' : msgs'[m] = msgs[m]
       /\ (last'.op = "user_destroy" /\ last'.status = 204) =>
             /\ DOMAIN msgs' = DOMAIN msgs \ {m \in DOMAIN msgs : msgs[m].sender = last'.arg}
             /\ \A m \in DOMAIN msgs' : msgs'[m] = msgs[m]]_vars

\* a user who had sent a message has been deleted while a message of another
\* sender stays
C15_Witness ==
    /\ last.op = "user_destroy" /\ last.status = 204
    /\ last.pre # {}
    /\ DOMAIN msgs # {}

\* ---- C16
\* C16: mark_as_read, mark_conversation_as_read, add_participant and
\* remove_participant leave the updated_at of every conversation unchanged.
C16_OnlyAppendTouches ==
    [][last'.op \in {"mark_as_read", "mark_conversation_as_read",
                     "add_participant", "remove_participant"} =>
          \A c \in DOMAIN convs :
              c \in DOMAIN convs' /\ convs'[c].updated_at = convs[c].updated_at]_vars

\* ---- C17
\* message a comes before message b: newer first, equal timestamps by id
NewestFirst(a, b) ==
    \/ msgs[a].timestamp > msgs[b].timestamp
    \/ msgs[a].timestamp = msgs[b].timestamp /\ a < b

\* C17: the messages of a conversation come back newest first with equal
\* timestamps in id order, at most 50 of them in the retrieved conversation,
\* and last_message is the first message of that order (none for a
\* conversation without messages).
C17_MessageOrder ==
    /\ ((last.op = "conversation_retrieve" \/ (last.op = "message_list" /\ last.conv # 0))
          /\ last.status = 200) =>
            /\ \A i, j \in DOMAIN last.ms : i < j => NewestFirst(last.ms[i], last.ms[j])
            /\ last.op = "conversation_retrieve" => Len(last.ms) <= 50
    /\ \A c \in DOMAIN convs : \A r \in last_message(c) :
            IF MessagesOf(msgs, c) = {} THEN r = 0
            ELSE /\ r \in MessagesOf(msgs, c)
                 /\ \A m \in MessagesOf(msgs, c) \ {r} : NewestFirst(r, m)

\* ---- C18
\* two requests that ran concurrently have both been answered 200: one added
\* x, the other added or removed another user y
BothDone(a, b) ==
    /\ a # b
    /\ reqs[a].pc = "done" /\ reqs[b].pc = "done"
    /\ reqs[a].conv = reqs[b].conv
    /\ reqs[a].arg # reqs[b].arg
    /\ reqs[a].op = "add_participant"

\* C18: when an add_participant(c, x) and a concurrent add_participant(c, y)
\* or remove_participant(c, y), x # y, have both completed, x takes part in c,
\* and y takes part after the add and does not after the remove, whatever the
\* order of their statements.
C18_NoLostParticipantUpdate ==
    \A a, b \in Threads :
        BothDone(a, b) =>
            /\ reqs[a].arg \in ParticipantsOf(reqs[a].conv)
            /\ (reqs[b].op = "add_participant") = (reqs[b].arg \in ParticipantsOf(reqs[b].conv))

\* an add and a concurrent remove of another user have both completed, in a
\* conversation that has a third participant
C18_Witness ==
    \E a, b \in Threads :
        /\ BothDone(a, b)
        /\ reqs[b].op = "remove_participant"
        /\ Cardinality(ParticipantsOf(reqs[a].conv)) = 2

\* ---- C19
\* C19: every existing conversation has at least one participant.
C19_NeverEmpty ==
    \A c \in DOMAIN convs : ParticipantsOf(c) # {}

\* ---- C20
\* C20: a message enters the store only in a step at whose start its sender
\* takes part in its conversation.
C20_SenderParticipatesAtInsert ==
    [][\A m \in DOMAIN msgs' \ DOMAIN msgs :
          /\ msgs'[m].conversation \in DOMAIN convs
          /\ msgs'[m].sender \in ParticipantsOf(msgs'[m].conversation)]_vars

====
